---- MODULE Spec2Model ----
(***************************************************************************)
(* The lifecycle controller of the functions emulator CLI                  *)
(* (src/src/cli/controller.js): start, stop, kill and status, the TCP      *)
(* readiness poll behind them, the persisted Status Record they share and  *)
(* the detached child processes they spawn and signal.                     *)
(*                                                                         *)
(* Every CLI invocation is one short-lived process; its state is inv[p].   *)
(* What outlives an invocation is the Status Record (status) and the       *)
(* children (child).                                                       *)
(***************************************************************************)
EXTENDS Integers, FiniteSets, Sequences, TLC

VARIABLES
    status,   \* the persisted Status Record (store.status)
    child,    \* child[c]: the process with pid c, spawned by start
    nextPid,  \* number of children spawned so far (pids are 1..nextPid)
    inv       \* inv[p]: the state of CLI invocation p

vars == <<status, child, nextPid, inv>>

----------------------------------------------------------------------------
(* Bounds of the model *)

\* at most this many children are ever spawned
MaxChildren == 2
\* one wait issues at most this many probes (only a wait without a numeric
\* countdown gets there)
MaxProbes == 3

----------------------------------------------------------------------------
(* Program constants and configuration *)

TIMEOUT_POLL_INCREMENT == 500

\* store.config: the read-only defaults
ConfigHost == "localhost"
ConfigPort == 8008
ConfigTimeout == 1000

NoHost == "undefined"
NoPort == 0
NoPid == 0

Hosts == {"localhost", "otherhost"}
Ports == {8008, 8010}
Pids == 1..MaxChildren

\* the invocations; one caller issuing commands one after another is
\* invocation 1 alone
Procs == {1, 2}
SeqProcs == {1}

\* (mutant) the message of the stop timeout copied into _waitForStart
StartTimeoutErrorCopied == "Timeout waiting for emulator stop"

\* new Error('Timeout waiting for emulator start') and its counterpart of stop
StartTimeoutError == "Timeout waiting for emulator start"
StopTimeoutError == "Timeout waiting for emulator stop"

----------------------------------------------------------------------------
(* JavaScript values of the countdown: undefined, NaN or a number.  A      *)
(* number n / TIMEOUT_POLL_INCREMENT is kept as its numerator n, so that a *)
(* timeout that is no multiple of the poll increment stays exact.          *)

Undefined == [kind |-> "undefined", val |-> 0]
NaN == [kind |-> "NaN", val |-> 0]
Num(n) == [kind |-> "number", val |-> n]

\* !x
Falsy(x) == x.kind # "number" \/ x.val = 0
\* x / TIMEOUT_POLL_INCREMENT
DivPoll(x) == IF x.kind = "number" THEN Num(x.val) ELSE NaN
\* x-- (one whole attempt is TIMEOUT_POLL_INCREMENT of the numerator)
Decrement(x) == IF x.kind = "number" THEN Num(x.val - TIMEOUT_POLL_INCREMENT) ELSE NaN
\* (mutant) x < 0
LeqZeroStrict(x) == x.kind = "number" /\ x.val < 0
\* x <= 0
LeqZero(x) == x.kind = "number" /\ x.val <= 0

\* a || b on hosts and on ports
OrHost(a, b) == IF a # NoHost THEN a ELSE b
OrPort(a, b) == IF a # NoPort THEN a ELSE b

----------------------------------------------------------------------------
(* The functions: what a caller deploys and what a server holds *)

\* the function an operation is about where no other is named, and the
\* functions a server can hold
FunctionName == "hello"
FunctionNames == {"hello", "helloData"}
ModulePaths == {"./mod", "/abs/mod"}
FunctionTypes == {"H", "B"}

\* path.resolve(modulePath), the working directory being /cwd
\* (mutant) the module path goes into the URL as the caller gave it
PathResolveNot(mp) == mp
PathResolve(mp) == IF mp = "./mod" THEN "/cwd/mod" ELSE mp

\* the type a server shows for the type parameter of a deployment
TypeName(t) == IF t = "B" THEN "BACKGROUND" ELSE "HTTP"

\* what a server holds of one function: its type and the path of its module
NoFunction == [type |-> "none", path |-> ""]
NoFunctions == [n \in FunctionNames |-> NoFunction]
Functions ==
    [type : {TypeName(t) : t \in FunctionTypes},
     path : ModulePaths \cup {PathResolve(mp) : mp \in ModulePaths}]
Registries == [FunctionNames -> Functions \cup {NoFunction}]

\* the JSON text of one function and of a collection of functions
FunctionOrder == <<"hello", "helloData">>
EncodeFunction(n, e) ==
    "{\"name\":\"" \o n \o "\",\"type\":\"" \o e.type \o "\",\"path\":\"" \o e.path \o "\"}"
RECURSIVE JoinMembers(_)
JoinMembers(ms) ==
    CASE ms = <<>> -> ""
      [] Len(ms) = 1 -> ms[1]
      [] OTHER -> ms[1] \o "," \o JoinMembers(Tail(ms))
EncodeFunctions(f) ==
    LET held == SelectSeq(FunctionOrder, LAMBDA n : f[n] # NoFunction)
        member(n) == "\"" \o n \o "\":" \o EncodeFunction(n, f[n])
    IN  "{" \o JoinMembers([k \in 1..Len(held) |-> member(held[k])]) \o "}"
FunctionTexts == {EncodeFunction(n, e) : n \in FunctionNames, e \in Functions}
RegistryTexts == {EncodeFunctions(f) : f \in Registries}

----------------------------------------------------------------------------
(* JavaScript values handed to call as data and to got as its json option. *)
(* A value is its type and its text: the content of a string, the JSON     *)
(* text of any other value.                                                *)

JsVal(t, x) == [t |-> t, x |-> x]
JsUndefined == JsVal("undefined", "undefined")
JsNull == JsVal("null", "null")
JsTrue == JsVal("boolean", "true")
JsZero == JsVal("number", "0")
JsObject == JsVal("object", "{\"a\":1}")

\* the JSON values of the model: null, 0, 1, the string a, {"a":1} and []
JsonValues ==
    {JsNull, JsZero, JsVal("number", "1"), JsVal("string", "a"), JsObject,
     JsVal("array", "[]")}

\* JSON.stringify(v)
Stringify(v) == IF v.t = "string" THEN "\"" \o v.x \o "\"" ELSE v.x

\* the error JSON.parse throws
SyntaxError == JsVal("error", "SyntaxError")

\* JSON.parse(s)
Parse(s) ==
    CASE \E v \in JsonValues : Stringify(v) = s ->
            CHOOSE v \in JsonValues : Stringify(v) = s
      [] s \in FunctionTexts \cup RegistryTexts -> JsVal("object", s)
      [] OTHER -> SyntaxError

\* what the handlers of list and describe read in a body: body[func].type
\* and body[func].path of every func, and body.name, body.type, body.path
DecodeFunctions(v) == CHOOSE f \in Registries : EncodeFunctions(f) = v.x
DecodeFunction(v) ==
    CHOOSE x \in FunctionNames \X Functions : EncodeFunction(x[1], x[2]) = v.x

\* whether `if (v)` takes v for true
Truthy(v) ==
    CASE v.t \in {"undefined", "null"} -> FALSE
      [] v.t = "boolean" -> v.x = "true"
      [] v.t = "number" -> v.x # "0"
      [] v.t = "string" -> v.x # ""
      [] OTHER -> TRUE

----------------------------------------------------------------------------
(* The Status Record *)

NoRecord ==
    [pid |-> NoPid, host |-> NoHost, port |-> NoPort,
     inspect |-> JsUndefined, debug |-> JsUndefined]

\* store.status.set({host, port, ...}): the settings of a launch
StatusSetSettings(st, h, p, inspect, debug) ==
    [st EXCEPT !.host = h, !.port = p, !.inspect = inspect, !.debug = debug]
\* store.status.set('pid', pid)
StatusSetPid(st, pid) == [st EXCEPT !.pid = pid]
\* store.status.clear()
StatusClear(st) == NoRecord

----------------------------------------------------------------------------
(* The children and the endpoints they listen on *)

NoChild == [st |-> "none", host |-> NoHost, port |-> NoPort, funcs |-> NoFunctions]
DeadChild == [st |-> "dead", host |-> NoHost, port |-> NoPort, funcs |-> NoFunctions]

Alive(c) == child[c].st \in {"spawned", "listening"}

\* a TCP connection to h:p is accepted
ListeningAt(h, p) ==
    \E c \in Pids : child[c].st = "listening" /\ child[c].host = h /\ child[c].port = p

Endpoint(h, p) == [host |-> h, port |-> p]
NoEndpoint == Endpoint(NoHost, NoPort)

----------------------------------------------------------------------------
(* Options of a call *)

Timeouts == {Undefined, Num(500), Num(750), Num(1000)}
\* the values an inspect or debug option is given as: nothing, a boolean, or
\* the string of one
FlagSettings ==
    {JsUndefined, JsTrue, JsVal("boolean", "false"), JsVal("string", "true"),
     JsVal("string", "false")}
NoOpts ==
    [host |-> NoHost, port |-> NoPort, timeout |-> Undefined, inspect |-> JsUndefined,
     debug |-> JsUndefined]
StartOpts ==
    [host : Hosts \cup {NoHost}, port : Ports \cup {NoPort}, timeout : Timeouts,
     inspect : {JsUndefined}, debug : {JsUndefined}]

\* getSetting(key, opts): the caller's option over the configuration default
GetSettingHost(opts) == OrHost(opts.host, ConfigHost)
GetSettingPort(opts) == OrPort(opts.port, ConfigPort)

\* getEmulatorRootUri(opts) and testConnection(opts): the caller's option
\* over the Status Record over the configuration default
\* (mutant) the host as getSetting resolves it, without the Status Record
TargetHostBySetting(opts, st) == GetSettingHost(opts)
TargetHost(opts, st) == OrHost(opts.host, OrHost(st.host, ConfigHost))
\* (mutant) the port of the configuration whatever the caller and the record say
TargetPortConfigOnly(opts, st) == ConfigPort
TargetPort(opts, st) == OrPort(opts.port, OrPort(st.port, ConfigPort))
Target(opts, st) == Endpoint(TargetHost(opts, st), TargetPort(opts, st))

\* i = opts.timeout / TIMEOUT_POLL_INCREMENT
InitialAttempts(opts) == DivPoll(opts.timeout)

----------------------------------------------------------------------------
(* The HTTP dispatcher _action: from the request of an operation to the    *)
(* options it hands to got                                                 *)

NoMethod == "undefined"

\* the argument of _action: a structured request, or a bare URL, which
\* becomes {url: opts}
ActionArg(method, t, path, data, timeout, raw) ==
    [method |-> method, host |-> t.host, port |-> t.port, path |-> path, data |-> data,
     timeout |-> timeout, raw |-> raw]
BareUrl(t, path) == ActionArg(NoMethod, t, path, JsUndefined, 0, FALSE)

\* opts.method || (opts.method = 'GET')
ActionMethod(a) == IF a.method = NoMethod THEN "GET" ELSE a.method

\* (mutant) a string body is passed on as it is
ActionJsonUnparsed(a) ==
    IF ActionMethod(a) = "POST" /\ Truthy(a.data) THEN a.data ELSE JsTrue

\* opts.json: true, or the body of a POST with data; JSON.parse may throw
ActionJson(a) ==
    IF ActionMethod(a) = "POST" /\ Truthy(a.data)
    THEN IF a.data.t = "string" THEN Parse(a.data.x) ELSE a.data
    ELSE JsTrue

\* got(opts.url, opts)
NoRequest ==
    [method |-> "none", host |-> NoHost, port |-> NoPort, path |-> "", json |-> JsUndefined,
     timeout |-> 0]
GotOptions(a) ==
    [method |-> ActionMethod(a), host |-> a.host, port |-> a.port, path |-> a.path,
     json |-> ActionJson(a), timeout |-> a.timeout]

\* the path of the request line for a URL: http://host:port, which has no
\* path, is requested as /
RequestPath(path) == IF path = "" THEN "/" ELSE path

\* what an operation returns: nothing yet, the whole response, its body
\* alone, or an error
NoReturn == [kind |-> "none", body |-> JsUndefined]

----------------------------------------------------------------------------
(* The arguments start launches the child with *)

\* store.config: debugging is off unless the caller asks for it
ConfigInspect == JsVal("boolean", "false")
ConfigDebug == JsVal("boolean", "false")
ConfigDebugPort == "5858"

\* getSetting('inspect', opts) and getSetting('debug', opts)
GetSettingFlag(v, default) == IF Truthy(v) THEN v ELSE default

\* x === true || x === 'true'
IsTrue(x) == x = JsTrue \/ x = JsVal("string", "true")

\* process.version.split('.') of the runtimes start may run on
RuntimeVersions == {<<"v0", "12", "18">>, <<"v4", "4", "0">>, <<"v6", "9", "1">>,
                    <<"v10", "0", "0">>}

\* parseInt(semver[0].substring(1, semver[0].length))
MajorOf(semver) ==
    CASE semver[1] = "v0" -> 0
      [] semver[1] = "v4" -> 4
      [] semver[1] = "v6" -> 6
      [] semver[1] = "v10" -> 10

\* process.version has not been read
NoMajor == -1

\* start reads process.version only for a requested inspect
VersionsRead(inspect) == IF IsTrue(inspect) THEN RuntimeVersions ELSE {<<"v6", "9", "1">>}

InspectFlag == "--inspect"
DebugFlag == "--debug=" \o ConfigDebugPort

\* (mutant) the two flags are decided one without the other
LaunchFlagsIndependent(inspect, debug, major) ==
    (IF IsTrue(inspect) /\ major >= 6 THEN <<InspectFlag>> ELSE <<>>)
        \o (IF IsTrue(debug) THEN <<DebugFlag>> ELSE <<>>)

\* the flags unshifted onto args: inspect on a runtime that has it, else
\* debug if there is no inspect setting
LaunchFlags(inspect, debug, major) ==
    IF IsTrue(inspect)
    THEN IF major >= 6 THEN <<InspectFlag>> ELSE <<>>
    ELSE IF IsTrue(debug) THEN <<DebugFlag>> ELSE <<>>

\* console.error('--inspect flag requires Node 6.3.0+')
Warns(inspect, major) == IsTrue(inspect) /\ major < 6

----------------------------------------------------------------------------
(* One invocation *)

\* pc: where the invocation is; op, opts: the command and its options;
\* i: the countdown of the wait; host, port, childPid, spawnErr: the locals
\* of start; url: the URL of stop's DELETE request.
\* The other fields record what the invocation has done so far:
\* rec0 the Status Record when the command was called, inits how often the
\* wait set its countdown from the timeout, fails the probes that made the
\* wait go on, delays the poll intervals waited, upTarget the
\* endpoint of the probe that let waitForStart resolve, running whether a
\* server answered at stop's URL when stop was called, delDone the outcome of
\* the DELETE request, waited whether waitForStop was entered, waitErr the
\* error a wait threw, pidRead the pid kill read, sigTo the pid a signal was
\* delivered to, sigErr whether process.kill threw, killed whether kill ran
\* to its end, result what the caller gets, sent the number of HTTP requests
\* handed to got, req the last of them, data and raw the payload and the raw
\* flag of the operation, ret the value an HTTP operation resolved with, meta
\* and error the metadata and the error in the result of status, major the
\* major version start read from process.version, args the arguments start
\* gave to spawn, warned whether start wrote its warning to the console, fn
\* the function name, module path and type the operation was called with,
\* inspect and debug the settings start read, state the state restart got
\* from status, thrown the error that left a command handler uncaught.
NoArgs == [name |-> "", path |-> "", type |-> ""]
Idle ==
    [pc |-> "idle", op |-> "none", opts |-> NoOpts, i |-> Undefined,
     host |-> NoHost, port |-> NoPort, childPid |-> NoPid, spawnErr |-> FALSE,
     inits |-> 0, fails |-> 0, delays |-> 0, upTarget |-> NoEndpoint, url |-> NoEndpoint,
     running |-> FALSE, delDone |-> "none", waited |-> FALSE, waitErr |-> "none",
     killed |-> FALSE, pidRead |-> NoPid, sigTo |-> NoPid, sigErr |-> FALSE,
     rec0 |-> NoRecord, result |-> "none",
     sent |-> 0, req |-> NoRequest, data |-> JsUndefined, raw |-> FALSE, ret |-> NoReturn,
     meta |-> NoRecord, error |-> "none",
     major |-> NoMajor, args |-> <<>>, warned |-> FALSE, fn |-> NoArgs,
     inspect |-> JsUndefined, debug |-> JsUndefined,
     state |-> "none", thrown |-> "none"]

Init ==
    /\ status = NoRecord
    /\ child = [c \in Pids |-> NoChild]
    /\ nextPid = 0
    /\ inv = [p \in Procs |-> Idle]

Set(p, rec) == inv' = [inv EXCEPT ![p] = rec]

----------------------------------------------------------------------------
(* The environment: what a child does on its own *)

\* the child binds the host:port it was launched with
ChildBind(c) ==
    /\ child[c].st = "spawned"
    /\ ~ListeningAt(child[c].host, child[c].port)
    /\ child' = [child EXCEPT ![c].st = "listening"]
    /\ UNCHANGED <<status, nextPid, inv>>

\* the child exits: after a signal, after a shutdown request, because its
\* port is taken, or by itself
ChildExit(c) ==
    /\ Alive(c)
    /\ child' = [child EXCEPT ![c] = DeadChild]
    /\ UNCHANGED <<status, nextPid, inv>>

----------------------------------------------------------------------------
(* start *)

SpawnOutcomes == {"ok", "throws", "error_event"}

\* start called with options of the set given, up to the first write of the
\* Status Record
StartSpawnOf(p, optsGiven) ==
    /\ inv[p].pc = "idle"
    /\ \E opts \in optsGiven, outcome \in SpawnOutcomes :
       \E semver \in VersionsRead(GetSettingFlag(opts.inspect, ConfigInspect)) :
        LET h == GetSettingHost(opts)
            po == GetSettingPort(opts)
            inspect == GetSettingFlag(opts.inspect, ConfigInspect)
            debug == GetSettingFlag(opts.debug, ConfigDebug)
            major == IF IsTrue(inspect) THEN MajorOf(semver) ELSE NoMajor
            me == [inv[p] EXCEPT !.op = "start", !.opts = opts, !.host = h, !.port = po,
                                 !.rec0 = status, !.major = major,
                                 !.inspect = inspect, !.debug = debug,
                                 !.args = LaunchFlags(inspect, debug, major) \o <<".">>,
                                 !.warned = Warns(inspect, major)]
        IN  CASE outcome = "throws" ->
                    /\ Set(p, [me EXCEPT !.pc = "done", !.result = "SpawnError"])
                    /\ UNCHANGED <<status, child, nextPid>>
              [] outcome = "error_event" ->
                    /\ status' = StatusSetSettings(status, h, po, inspect, debug)
                    /\ Set(p, [me EXCEPT !.pc = "start_pid", !.spawnErr = TRUE])
                    /\ UNCHANGED <<child, nextPid>>
              [] outcome = "ok" ->
                    /\ nextPid < MaxChildren
                    /\ nextPid' = nextPid + 1
                    /\ child' = [child EXCEPT ![nextPid + 1] =
                                    [st |-> "spawned", host |-> h, port |-> po,
                                     funcs |-> NoFunctions]]
                    /\ status' = StatusSetSettings(status, h, po, inspect, debug)
                    /\ Set(p, [me EXCEPT !.pc = "start_pid", !.childPid = nextPid + 1])

StartSpawn(p) == StartSpawnOf(p, StartOpts)

\* (mutant) the pid is written together with the settings of this start, as
\* one record
StartWritePidWholeRecord(p) ==
    /\ inv[p].pc = "start_pid"
    /\ status' = [pid |-> inv[p].childPid, host |-> inv[p].host, port |-> inv[p].port,
         inspect |-> inv[p].inspect, debug |-> inv[p].debug]
    /\ IF inv[p].spawnErr
         THEN Set(p, [inv[p] EXCEPT !.pc = "done", !.result = "crashed"])
         ELSE Set(p, [inv[p] EXCEPT !.pc = "ws_probe"])
    /\ UNCHANGED <<child, nextPid>>

\* the second write of the Status Record and the rest of start's synchronous
\* block.  A child that could not be executed has no pid, and its 'error'
\* event, which nothing listens to, ends the invocation once the block is over.
StartWritePid(p) ==
    /\ inv[p].pc = "start_pid"
    /\ status' = StatusSetPid(status, inv[p].childPid)
    /\ IF inv[p].spawnErr
         THEN Set(p, [inv[p] EXCEPT !.pc = "done", !.result = "crashed"])
         ELSE Set(p, [inv[p] EXCEPT !.pc = "ws_probe"])
    /\ UNCHANGED <<child, nextPid>>

\* if (!i) { i = opts.timeout / TIMEOUT_POLL_INCREMENT; }
WaitEntry(i, opts) == IF Falsy(i) THEN InitialAttempts(opts) ELSE i

\* (mutant) the timeout of _waitForStart clears the Status Record of the
\* launch
WaitForStartCleansUp(p) ==
    /\ inv[p].pc = "ws_probe"
    /\ inv[p].fails < MaxProbes
    /\ LET me == [inv[p] EXCEPT !.inits = IF Falsy(inv[p].i) THEN @ + 1 ELSE @]
           i0 == WaitEntry(me.i, me.opts)
           t == Target(me.opts, status)
           i1 == Decrement(i0)
       IN  IF ListeningAt(t.host, t.port)
           THEN /\ Set(p, [me EXCEPT !.pc = "done", !.i = i0, !.upTarget = t,
                                     !.result = "ok"])
                /\ UNCHANGED status
           ELSE IF LeqZero(i1)
                THEN /\ Set(p, [me EXCEPT !.pc = "done", !.i = i1, !.fails = @ + 1,
                                          !.waitErr = StartTimeoutError,
                                          !.result = StartTimeoutError])
                     /\ status' = StatusClear(status)
                ELSE /\ Set(p, [me EXCEPT !.pc = "ws_sleep", !.i = i1, !.fails = @ + 1])
                     /\ UNCHANGED status
    /\ UNCHANGED <<child, nextPid>>

\* _waitForStart(opts, i): one probe and what follows it
WaitForStart(p) ==
    /\ inv[p].pc = "ws_probe"
    /\ inv[p].fails < MaxProbes
    /\ LET me == [inv[p] EXCEPT !.inits = IF Falsy(inv[p].i) THEN @ + 1 ELSE @]
           i0 == WaitEntry(me.i, me.opts)
           t == Target(me.opts, status)
           i1 == Decrement(i0)
       IN  IF ListeningAt(t.host, t.port)
           THEN Set(p, [me EXCEPT !.pc = "done", !.i = i0, !.upTarget = t, !.result = "ok"])
           ELSE IF LeqZero(i1)
                THEN Set(p, [me EXCEPT !.pc = "done", !.i = i1, !.fails = @ + 1,
                                       !.waitErr = StartTimeoutError,
                                       !.result = StartTimeoutError])
                ELSE Set(p, [me EXCEPT !.pc = "ws_sleep", !.i = i1, !.fails = @ + 1])
    /\ UNCHANGED <<status, child, nextPid>>

\* setTimeout(..., TIMEOUT_POLL_INCREMENT) of _waitForStart fires
WaitForStartTimer(p) ==
    /\ inv[p].pc = "ws_sleep"
    /\ Set(p, [inv[p] EXCEPT !.pc = "ws_probe", !.delays = @ + 1])
    /\ UNCHANGED <<status, child, nextPid>>

----------------------------------------------------------------------------
(* stop *)

StopOpts == StartOpts

\* stop called with options of the set given: the DELETE request on the root
\* URL is sent
StopRequestOf(p, optsGiven) ==
    /\ inv[p].pc = "idle"
    /\ \E opts \in optsGiven :
        LET t == Target(opts, status)
            a == ActionArg("DELETE", t, "", JsUndefined, 5000, FALSE)
        IN  Set(p, [inv[p] EXCEPT !.op = "stop", !.opts = opts, !.url = t, !.rec0 = status,
                                  !.running = ListeningAt(t.host, t.port),
                                  !.sent = @ + 1, !.req = GotOptions(a),
                                  !.pc = "stop_delete"])
    /\ UNCHANGED <<status, child, nextPid>>

StopRequest(p) == StopRequestOf(p, StopOpts)

\* (mutant) the wait follows the DELETE request whether it succeeded or not
StopAfterDeleteAlwaysWaits(outcome) == "wstop_probe"

\* .then(() => this._waitForStop(opts)) and the handlers after it: where stop
\* goes once the DELETE request has succeeded ("ok") or failed ("fail")
StopAfterDelete(outcome) == IF outcome = "ok" THEN "wstop_probe" ELSE "kill"

\* (mutant) .then(() => this.kill(opts)) without the rejection handler
StopAfterWaitNoRejectionHandler(waitErr) == IF waitErr = "none" THEN "kill" ELSE "done"

\* .then(() => this.kill(opts), () => this.kill(opts)): where stop goes once
\* _waitForStop has resolved ("none") or thrown its timeout
StopAfterWait(waitErr) == "kill"

\* the DELETE request completes: it can succeed only if a server answers at
\* its URL, and it can fail in any case (refused, 5000 ms timeout, non-2xx)
StopResponse(p) ==
    /\ inv[p].pc = "stop_delete"
    /\ \E outcome \in {"ok", "fail"} :
        /\ outcome = "ok" => ListeningAt(inv[p].url.host, inv[p].url.port)
        /\ Set(p, [inv[p] EXCEPT !.delDone = outcome, !.pc = StopAfterDelete(outcome)])
    /\ UNCHANGED <<status, child, nextPid>>

\* _waitForStop(opts, i): one probe and what follows it
WaitForStop(p) ==
    /\ inv[p].pc = "wstop_probe"
    /\ inv[p].fails < MaxProbes
    /\ LET me == [inv[p] EXCEPT !.waited = TRUE,
                                !.inits = IF Falsy(inv[p].i) THEN @ + 1 ELSE @]
           i0 == WaitEntry(me.i, me.opts)
           t == Target(me.opts, status)
           i1 == Decrement(i0)
       IN  IF ListeningAt(t.host, t.port)
           THEN IF LeqZero(i1)
                THEN Set(p, [me EXCEPT !.pc = StopAfterWait(StopTimeoutError), !.i = i1,
                                       !.fails = @ + 1, !.waitErr = StopTimeoutError])
                ELSE Set(p, [me EXCEPT !.pc = "wstop_sleep", !.i = i1, !.fails = @ + 1])
           ELSE Set(p, [me EXCEPT !.pc = StopAfterWait("none"), !.i = i0])
    /\ UNCHANGED <<status, child, nextPid>>

\* setTimeout(..., TIMEOUT_POLL_INCREMENT) of _waitForStop fires
WaitForStopTimer(p) ==
    /\ inv[p].pc = "wstop_sleep"
    /\ Set(p, [inv[p] EXCEPT !.pc = "wstop_probe", !.delays = @ + 1])
    /\ UNCHANGED <<status, child, nextPid>>

----------------------------------------------------------------------------
(* kill *)

\* kill(opts), called as a command of its own
KillCall(p) ==
    /\ inv[p].pc = "idle"
    /\ Set(p, [inv[p] EXCEPT !.op = "kill", !.pc = "kill", !.rec0 = status])
    /\ UNCHANGED <<status, child, nextPid>>

\* process.kill(pid) delivers the signal; it throws for a missing pid and for
\* the pid of a process that is gone
KillDelivers(pid) == pid \in Pids /\ Alive(pid)

\* (mutant) kill without its .catch: a throwing process.kill rejects kill
KillSignalNoCatch(p) ==
    /\ inv[p].pc = "kill"
    /\ LET pid == status.pid
       IN  IF KillDelivers(pid)
           THEN Set(p, [inv[p] EXCEPT !.pc = "kill_clear", !.pidRead = pid, !.sigTo = pid])
           ELSE Set(p, [inv[p] EXCEPT !.pc = "done", !.pidRead = pid, !.sigErr = TRUE,
                                      !.result = "kill ESRCH"])
    /\ UNCHANGED <<status, child, nextPid>>

\* process.kill(store.status.get('pid'))
KillSignal(p) ==
    /\ inv[p].pc = "kill"
    /\ LET pid == status.pid
       IN  IF KillDelivers(pid)
           THEN Set(p, [inv[p] EXCEPT !.pc = "kill_clear", !.pidRead = pid, !.sigTo = pid])
           ELSE Set(p, [inv[p] EXCEPT !.pc = "kill_clear", !.pidRead = pid, !.sigErr = TRUE])
    /\ UNCHANGED <<status, child, nextPid>>

\* (mutant) the record is cleared only after a delivered signal
AfterSignalClearOnSuccess(st, threw) == IF threw THEN st ELSE StatusClear(st)

\* the Status Record after the signal: store.status.clear() follows
\* process.kill, and .catch(() => store.status.clear()) follows its throwing
AfterSignal(st, threw) == StatusClear(st)

\* (mutant) kill clears the record only if it is still the one found when
\* the command began
KillClearOwnRecord(p) ==
    /\ inv[p].pc = "kill_clear"
    /\ status' = IF status = inv[p].rec0 THEN AfterSignal(status, inv[p].sigErr) ELSE status
    /\ Set(p, [inv[p] EXCEPT !.pc = "done", !.killed = TRUE, !.result = "ok"])
    /\ UNCHANGED <<child, nextPid>>

\* kill ends: the record is cleared and kill resolves
KillClear(p) ==
    /\ inv[p].pc = "kill_clear"
    /\ status' = AfterSignal(status, inv[p].sigErr)
    /\ Set(p, [inv[p] EXCEPT !.pc = "done", !.killed = TRUE, !.result = "ok"])
    /\ UNCHANGED <<child, nextPid>>

----------------------------------------------------------------------------
(* status *)

StatusOpts ==
    [host : Hosts \cup {NoHost}, port : Ports \cup {NoPort}, timeout : {Undefined},
     inspect : {JsUndefined}, debug : {JsUndefined}]

\* (mutant) the probe of status connects to the configured host:port only
StatusStateConfigOnly(opts, st) ==
    IF ListeningAt(ConfigHost, ConfigPort) THEN "RUNNING" ELSE "STOPPED"

\* what status(opts) returns: RUNNING if testConnection(opts) connects,
\* STOPPED if it fails
StatusState(opts, st) ==
    IF ListeningAt(TargetHost(opts, st), TargetPort(opts, st)) THEN "RUNNING" ELSE "STOPPED"

\* the error of a probe that could not connect
ProbeError == "ECONNREFUSED"

\* (mutant) the metadata is what the server at the probed host:port reports
\* of itself
StatusMetadataOfServer(opts, st) ==
    [pid |-> NoPid, host |-> TargetHost(opts, st), port |-> TargetPort(opts, st),
     inspect |-> JsUndefined, debug |-> JsUndefined]

\* metadata: store.status.all
StatusMetadata(opts, st) == st

\* (mutant) status asks the server for its environment after a probe that
\* connected, and the failure of that request is the failure of status
StatusQueryingEnvironment(p) ==
    /\ inv[p].pc = "idle"
    /\ \E opts \in StatusOpts, outcome \in {"ok", "fail"} :
        LET t == Target(opts, status)
            a == ActionArg(NoMethod, t, "/?env=true", JsUndefined, 2000, FALSE)
            me == [inv[p] EXCEPT !.op = "status", !.opts = opts, !.pc = "done", !.url = t]
        IN  IF StatusState(opts, status) = "RUNNING"
            THEN IF outcome = "ok"
                 THEN Set(p, [me EXCEPT !.result = "RUNNING", !.sent = @ + 1,
                                        !.req = GotOptions(a),
                                        !.meta = StatusMetadataOfServer(opts, status)])
                 ELSE Set(p, [me EXCEPT !.result = "HTTPError", !.sent = @ + 1,
                                        !.req = GotOptions(a)])
            ELSE Set(p, [me EXCEPT !.result = "STOPPED", !.error = ProbeError])
    /\ UNCHANGED <<status, child, nextPid>>

\* status(opts): the probe and the result made from its outcome
Status(p) ==
    /\ inv[p].pc = "idle"
    /\ \E opts \in StatusOpts :
        LET t == Target(opts, status)
            me == [inv[p] EXCEPT !.op = "status", !.opts = opts, !.pc = "done", !.url = t,
                                 !.rec0 = status]
        IN  IF StatusState(opts, status) = "RUNNING"
            THEN Set(p, [me EXCEPT !.result = "RUNNING",
                                   !.meta = StatusMetadata(opts, status)])
            ELSE Set(p, [me EXCEPT !.result = "STOPPED", !.error = ProbeError])
    /\ UNCHANGED <<status, child, nextPid>>

----------------------------------------------------------------------------
(* The restart command *)

\* the arguments the handler of restart, called with opts, gives to
\* controller.status: none
RestartStatusArguments(opts) == <<>>

\* the error of opts.host where opts is undefined
TypeError == "TypeError: Cannot read property 'host' of undefined"

\* testConnection(opts) reads opts.host and opts.port before it makes its
\* promise: without an argument the read throws, and status with it
StatusThrows(args) == Len(args) = 0

\* the handler of restart: controller.status() throws before there is a
\* promise, so neither .then nor .catch(utils.handleError) of the handler is
\* reached and the error leaves the handler; with an argument status
\* resolves with the state, on which the handler goes on to stop and start
\* (RUNNING) or to start (STOPPED)
Restart(p) ==
    /\ inv[p].pc = "idle"
    /\ \E opts \in StatusOpts :
        LET args == RestartStatusArguments(opts)
            me == [inv[p] EXCEPT !.op = "restart", !.opts = opts, !.rec0 = status]
        IN  IF StatusThrows(args)
            THEN Set(p, [me EXCEPT !.pc = "done", !.result = TypeError,
                                   !.thrown = TypeError])
            ELSE LET state == StatusState(args[1], status)
                 IN  Set(p, [me EXCEPT !.state = state,
                                       !.url = Target(args[1], status),
                                       !.meta = IF state = "RUNNING"
                                                THEN StatusMetadata(args[1], status)
                                                ELSE NoRecord,
                                       !.pc = IF state = "RUNNING" THEN "restart_stop"
                                              ELSE "restart_start"])
    /\ UNCHANGED <<status, child, nextPid>>

----------------------------------------------------------------------------
(* The operations built on the HTTP dispatcher *)

HttpOpts ==
    [host : {NoHost, "otherhost"}, port : {NoPort, 8010}, timeout : {Undefined},
     inspect : {JsUndefined}, debug : {JsUndefined}]

\* the path of getEmulatorFuncUri(opts)
FuncPath == "/function/"

\* what call is given as data: a JSON value, its JSON text, or nothing
CallData ==
    JsonValues \cup {JsVal("string", Stringify(v)) : v \in JsonValues} \cup {JsUndefined}

\* the options and arguments the operations are called with
CallInputs == {x \in HttpOpts \X CallData : x[1] = NoOpts \/ x[2] = JsObject}
DeployInputs ==
    {x \in HttpOpts \X ModulePaths \X FunctionTypes \X {FunctionName} :
        x[1] = NoOpts \/ (x[2] = "./mod" /\ x[3] = "B")}

\* `${getEmulatorFuncUri(opts)}${entryPoint}?path=${...}&type=${type}`
\* (mutant) the type of the deployment is not passed on: every one is H
DeployUrlTypeH(name, path, type) == FuncPath \o name \o "?path=" \o path \o "&type=H"
DeployUrl(name, path, type) == FuncPath \o name \o "?path=" \o path \o "&type=" \o type

\* the bodies a server responds with: a JSON text and a text that is no JSON
ResponseBodies == {"{\"a\":1}", "Hello"}

\* _action(a), called by operation op: JSON.parse of a string body may throw
\* before anything is sent; otherwise the request goes to got
ActionOn(p, op, opts, a, fn) ==
    LET me == [inv[p] EXCEPT !.op = op, !.opts = opts, !.rec0 = status,
                             !.url = Endpoint(a.host, a.port), !.data = a.data,
                             !.raw = a.raw, !.fn = fn]
    IN  /\ IF ActionJson(a) = SyntaxError
           THEN Set(p, [me EXCEPT !.pc = "done", !.result = "SyntaxError",
                                  !.ret = [kind |-> "error", body |-> SyntaxError]])
           ELSE Set(p, [me EXCEPT !.pc = "http_wait", !.sent = @ + 1, !.req = GotOptions(a)])
        /\ UNCHANGED <<status, child, nextPid>>
Action(p, op, opts, a) == ActionOn(p, op, opts, a, NoArgs)

\* (mutant) clear deletes one function, not the collection
ClearOneFunction(p) ==
    /\ inv[p].pc = "idle"
    /\ \E opts \in HttpOpts :
        Action(p, "clear", opts,
               ActionArg("DELETE", Target(opts, status), FuncPath \o FunctionName,
                         JsUndefined, 0, FALSE))
Clear(p) ==
    /\ inv[p].pc = "idle"
    /\ \E opts \in HttpOpts :
        Action(p, "clear", opts,
               ActionArg("DELETE", Target(opts, status), FuncPath, JsUndefined, 0, FALSE))

Prune(p) ==
    /\ inv[p].pc = "idle"
    /\ \E opts \in HttpOpts :
        Action(p, "prune", opts,
               ActionArg("PATCH", Target(opts, status), FuncPath, JsUndefined, 0, FALSE))

\* deploy(modulePath, entryPoint, type, opts), its arguments of the set given
DeployOf(p, inputs) ==
    /\ inv[p].pc = "idle"
    /\ \E x \in inputs :
        ActionOn(p, "deploy", x[1],
                 ActionArg("POST", Target(x[1], status),
                           DeployUrl(x[4], PathResolve(x[2]), x[3]), JsUndefined, 0, FALSE),
                 [name |-> x[4], path |-> x[2], type |-> x[3]])
Deploy(p) == DeployOf(p, DeployInputs)

\* (mutant) undeploy deletes the collection, not the function
UndeployOfCollection(p, inputs) ==
    /\ inv[p].pc = "idle"
    /\ \E x \in inputs :
        ActionOn(p, "undeploy", x[1],
                 ActionArg("DELETE", Target(x[1], status), FuncPath, JsUndefined, 0, FALSE),
                 [NoArgs EXCEPT !.name = x[2]])
\* undeploy(name, opts), its arguments of the set given
UndeployOf(p, inputs) ==
    /\ inv[p].pc = "idle"
    /\ \E x \in inputs :
        ActionOn(p, "undeploy", x[1],
                 ActionArg("DELETE", Target(x[1], status), FuncPath \o x[2],
                           JsUndefined, 0, FALSE),
                 [NoArgs EXCEPT !.name = x[2]])
Undeploy(p) == UndeployOf(p, HttpOpts \X {FunctionName})

List(p) ==
    /\ inv[p].pc = "idle"
    /\ \E opts \in HttpOpts :
        Action(p, "list", opts, BareUrl(Target(opts, status), FuncPath))

\* describe(name, opts), its arguments of the set given
DescribeOf(p, inputs) ==
    /\ inv[p].pc = "idle"
    /\ \E x \in inputs :
        ActionOn(p, "describe", x[1], BareUrl(Target(x[1], status), FuncPath \o x[2]),
                 [NoArgs EXCEPT !.name = x[2]])
Describe(p) == DescribeOf(p, HttpOpts \X {FunctionName})

Call(p) ==
    /\ inv[p].pc = "idle"
    /\ \E x \in CallInputs :
        Action(p, "call", x[1],
               ActionArg("POST", Target(x[1], status), "/" \o FunctionName, x[2], 0, TRUE))

GetCurrentEnvironment(p) ==
    /\ inv[p].pc = "idle"
    /\ \E opts \in HttpOpts :
        Action(p, "getCurrentEnvironment", opts,
               ActionArg(NoMethod, Target(opts, status), "/?env=true", JsUndefined, 2000,
                         FALSE))

\* got with a json option that holds for true parses the body of the
\* response as JSON; with any other it leaves the text as it is
GotBody(json, text) == IF Truthy(json) THEN Parse(text) ELSE JsVal("string", text)

\* (response) => raw ? response : response.body
ActionReturn(raw, body) == [kind |-> IF raw THEN "response" ELSE "body", body |-> body]

\* (mutant) a failed request is taken for an empty answer
ActionResultSwallowed(outcome, body) ==
    IF outcome = "ok" /\ body = SyntaxError THEN "ParseError" ELSE "ok"

\* how the promise _action returns settles: got has no rejection handler
\* here, so a request that failed and a body got could not parse reject it
ActionResult(outcome, body) ==
    CASE outcome = "fail" -> "HTTPError"
      [] outcome = "ok" /\ body = SyntaxError -> "ParseError"
      [] OTHER -> "ok"

\* the promise of got settles: the request can succeed only if a server
\* answers at its host:port, and it can fail in any case (refused, timeout,
\* non-2xx)
Settle(p, outcome, text) ==
    LET body == GotBody(inv[p].req.json, text)
        result == ActionResult(outcome, body)
        me == [inv[p] EXCEPT !.pc = "done", !.delDone = outcome, !.result = result]
    IN  CASE result = "ok" ->
               Set(p, [me EXCEPT !.ret = ActionReturn(inv[p].raw, body)])
          [] result = "ParseError" ->
               Set(p, [me EXCEPT !.ret = [kind |-> "error", body |-> SyntaxError]])
          [] OTHER ->
               Set(p, [me EXCEPT !.ret = [kind |-> "error", body |-> JsUndefined]])

\* (mutant) a request that failed clears the Status Record
HttpResponseClearsOnFailure(p) ==
    /\ inv[p].pc = "http_wait"
    /\ \E outcome \in {"ok", "fail"}, text \in ResponseBodies :
        /\ outcome = "ok" => ListeningAt(inv[p].req.host, inv[p].req.port)
        /\ Settle(p, outcome, text)
        /\ status' = IF outcome = "fail" THEN StatusClear(status) ELSE status
    /\ UNCHANGED <<child, nextPid>>

\* a server whose answers are not modelled: any body, and what it holds
\* stays out of the picture
HttpResponse(p) ==
    /\ inv[p].pc = "http_wait"
    /\ \E outcome \in {"ok", "fail"}, text \in ResponseBodies :
        /\ outcome = "ok" => ListeningAt(inv[p].req.host, inv[p].req.port)
        /\ Settle(p, outcome, text)
    /\ UNCHANGED <<status, child, nextPid>>

\* the HTTP API of the server on the functions it holds: what a request
\* makes of them, whether it is served, and the body of the answer
Acknowledged == Stringify(JsObject)
Refused(funcs) == [ok |-> FALSE, funcs |-> funcs, text |-> ""]
Serve(funcs, req) ==
    LET path == RequestPath(req.path)
        deployed == {x \in FunctionNames \X Functions \X FunctionTypes :
                        /\ path = "/function/" \o x[1] \o "?path=" \o x[2].path
                                      \o "&type=" \o x[3]
                        /\ x[2].type = TypeName(x[3])}
        named == {n \in FunctionNames : path = "/function/" \o n}
    IN  CASE req.method = "POST" /\ deployed # {} ->
                LET x == CHOOSE x \in deployed : TRUE
                IN  [ok |-> TRUE, funcs |-> [funcs EXCEPT ![x[1]] = x[2]],
                     text |-> EncodeFunction(x[1], x[2])]
          [] req.method = "DELETE" /\ path = "/function/" ->
                [ok |-> TRUE, funcs |-> NoFunctions, text |-> Acknowledged]
          [] req.method = "DELETE" /\ named # {} ->
                LET n == CHOOSE n \in named : TRUE
                IN  IF funcs[n] = NoFunction
                    THEN Refused(funcs)
                    ELSE [ok |-> TRUE, funcs |-> [funcs EXCEPT ![n] = NoFunction],
                          text |-> Acknowledged]
          [] req.method = "GET" /\ path = "/function/" ->
                [ok |-> TRUE, funcs |-> funcs, text |-> EncodeFunctions(funcs)]
          [] req.method = "GET" /\ named # {} ->
                LET n == CHOOSE n \in named : TRUE
                IN  IF funcs[n] = NoFunction
                    THEN Refused(funcs)
                    ELSE [ok |-> TRUE, funcs |-> funcs, text |-> EncodeFunction(n, funcs[n])]
          [] OTHER -> Refused(funcs)

\* the server listening at h:p
ServerAt(h, p) ==
    CHOOSE c \in Pids : child[c].st = "listening" /\ child[c].host = h /\ child[c].port = p

\* the server at the host:port of the request answers it
ServerAnswers(p) ==
    /\ inv[p].pc = "http_wait"
    /\ ListeningAt(inv[p].req.host, inv[p].req.port)
    /\ LET c == ServerAt(inv[p].req.host, inv[p].req.port)
           served == Serve(child[c].funcs, inv[p].req)
       IN  /\ child' = [child EXCEPT ![c].funcs = served.funcs]
           /\ Settle(p, IF served.ok THEN "ok" ELSE "fail", served.text)
    /\ UNCHANGED <<status, nextPid>>

\* the request reaches no server: refused, or timed out
RequestFails(p) ==
    /\ inv[p].pc = "http_wait"
    /\ Settle(p, "fail", "")
    /\ UNCHANGED <<status, child, nextPid>>

----------------------------------------------------------------------------
(* The invocation ends and the caller may issue its next command *)

Finish(p) ==
    /\ inv[p].pc = "done"
    /\ Set(p, Idle)
    /\ UNCHANGED <<status, child, nextPid>>

----------------------------------------------------------------------------
Step(p) ==
    \/ StartSpawn(p)
    \/ StartWritePid(p)
    \/ WaitForStart(p)
    \/ WaitForStartTimer(p)
    \/ StopRequest(p)
    \/ StopResponse(p)
    \/ WaitForStop(p)
    \/ WaitForStopTimer(p)
    \/ KillCall(p)
    \/ KillSignal(p)
    \/ KillClear(p)
    \/ Status(p)
    \/ Finish(p)

Environment ==
    \E c \in Pids : ChildBind(c) \/ ChildExit(c)

Next ==
    \/ \E p \in SeqProcs : Step(p)
    \/ Environment

Spec == Init /\ [][Next]_vars

\* the lifecycle commands, start and stop with a timeout of two poll
\* intervals, together with the operations on a running server
LifecycleOpts ==
    [host : Hosts \cup {NoHost}, port : Ports \cup {NoPort}, timeout : {Num(1000)},
     inspect : {JsUndefined}, debug : {JsUndefined}]

HttpStep(p) ==
    \/ StartSpawnOf(p, LifecycleOpts)
    \/ StartWritePid(p)
    \/ WaitForStart(p)
    \/ WaitForStartTimer(p)
    \/ StopRequestOf(p, LifecycleOpts)
    \/ StopResponse(p)
    \/ WaitForStop(p)
    \/ WaitForStopTimer(p)
    \/ KillCall(p)
    \/ KillSignal(p)
    \/ KillClear(p)
    \/ Status(p)
    \/ Finish(p)
    \/ Clear(p)
    \/ Prune(p)
    \/ Deploy(p)
    \/ Undeploy(p)
    \/ List(p)
    \/ Describe(p)
    \/ Call(p)
    \/ GetCurrentEnvironment(p)
    \/ HttpResponse(p)

NextHttp ==
    \/ \E p \in SeqProcs : HttpStep(p)
    \/ Environment

SpecHttp == Init /\ [][NextHttp]_vars

\* two invocations that run start at the same time, on the configured host,
\* each with a timeout of one poll interval
RaceOpts ==
    [host : {NoHost}, port : {NoPort, 8010}, timeout : {Num(500)},
     inspect : {JsUndefined}, debug : {JsUndefined}]

RaceStep(p) ==
    \/ StartSpawnOf(p, RaceOpts)
    \/ StartWritePid(p)
    \/ WaitForStart(p)
    \/ Finish(p)

NextRace ==
    \/ \E p \in Procs : RaceStep(p)
    \/ Environment

SpecRace == Init /\ [][NextRace]_vars

\* one caller that runs start with every setting of inspect and debug
ArgsOpts ==
    [host : {NoHost}, port : {NoPort}, timeout : {Num(500)},
     inspect : FlagSettings, debug : FlagSettings]

ArgsStep(p) ==
    \/ StartSpawnOf(p, ArgsOpts)
    \/ StartWritePid(p)
    \/ WaitForStart(p)
    \/ Finish(p)

NextArgs ==
    \/ \E p \in SeqProcs : ArgsStep(p)
    \/ Environment

SpecArgs == Init /\ [][NextArgs]_vars

\* two invocations that run start and stop at the same time, on the
\* configured host and port, each with a timeout of one poll interval
StopRaceOpts ==
    [host : {NoHost}, port : {NoPort}, timeout : {Num(500)},
     inspect : {JsUndefined}, debug : {JsUndefined}]

StopRaceStep(p) ==
    \/ StartSpawnOf(p, StopRaceOpts)
    \/ StartWritePid(p)
    \/ WaitForStart(p)
    \/ StopRequestOf(p, StopRaceOpts)
    \/ StopResponse(p)
    \/ WaitForStop(p)
    \/ KillSignal(p)
    \/ KillClear(p)
    \/ Finish(p)

NextStopRace ==
    \/ \E p \in Procs : StopRaceStep(p)
    \/ Environment

SpecStopRace == Init /\ [][NextStopRace]_vars

\* one caller that runs start, stop, status and restart on the configured
\* host and port
RestartStep(p) ==
    \/ StartSpawnOf(p, StopRaceOpts)
    \/ StartWritePid(p)
    \/ WaitForStart(p)
    \/ StopRequestOf(p, StopRaceOpts)
    \/ StopResponse(p)
    \/ WaitForStop(p)
    \/ KillSignal(p)
    \/ KillClear(p)
    \/ Status(p)
    \/ Restart(p)
    \/ Finish(p)

NextRestart ==
    \/ \E p \in SeqProcs : RestartStep(p)
    \/ Environment

SpecRestart == Init /\ [][NextRestart]_vars

\* one caller that starts servers on the configured host and deploys,
\* undeploys, lists, describes and clears the functions they hold
FuncsOpts ==
    [host : {NoHost}, port : {NoPort, 8010}, timeout : {Num(500)},
     inspect : {JsUndefined}, debug : {JsUndefined}]
FuncsHttpOpts == {o \in HttpOpts : o.host = NoHost}
FuncsDeployInputs ==
    {x \in FuncsHttpOpts \X ModulePaths \X FunctionTypes \X FunctionNames :
        x[4] = FunctionName \/ (x[2] = "./mod" /\ x[3] = "B")}

FuncsStep(p) ==
    \/ StartSpawnOf(p, FuncsOpts)
    \/ StartWritePid(p)
    \/ WaitForStart(p)
    \/ Finish(p)
    \/ DeployOf(p, FuncsDeployInputs)
    \/ UndeployOf(p, FuncsHttpOpts \X FunctionNames)
    \/ DescribeOf(p, FuncsHttpOpts \X FunctionNames)
    \/ List(p)
    \/ Clear(p)
    \/ ServerAnswers(p)
    \/ RequestFails(p)

NextFuncs ==
    \/ \E p \in SeqProcs : FuncsStep(p)
    \/ Environment

SpecFuncs == Init /\ [][NextFuncs]_vars

----------------------------------------------------------------------------
(* Properties *)

Numeric(opts) == opts.timeout.kind = "number"
InWaitForStart(p) == inv[p].op = "start" /\ inv[p].pc \in {"ws_probe", "ws_sleep"}
StartResolved(p) == inv[p].op = "start" /\ inv[p].pc = "done" /\ inv[p].result = "ok"
StartTimedOut(p) ==
    inv[p].op = "start" /\ inv[p].pc = "done" /\ inv[p].waitErr = StartTimeoutError
StopDone(p) == inv[p].op = "stop" /\ inv[p].pc = "done"
KillDone(p) == inv[p].op = "kill" /\ inv[p].pc = "done"

\* C1: start resolves only after a probe has succeeded that was made after
\* the spawn and that targeted the host:port start resolved from the caller's
\* options over the configuration defaults and wrote to the Status Record.
C1_StartResolvesAfterProbe ==
    \A p \in Procs :
        StartResolved(p) =>
            /\ inv[p].childPid # NoPid
            /\ inv[p].upTarget =
                   Endpoint(GetSettingHost(inv[p].opts), GetSettingPort(inv[p].opts))
            /\ inv[p].upTarget = Endpoint(inv[p].host, inv[p].port)
            /\ status.host = inv[p].upTarget.host
            /\ status.port = inv[p].upTarget.port
            /\ status.pid = inv[p].childPid

\* start resolved on a port of the caller and the host of the configuration
C1_Witness ==
    \E p \in Procs :
        /\ StartResolved(p)
        /\ inv[p].opts.port = 8010 /\ inv[p].opts.host = NoHost
        /\ inv[p].upTarget = Endpoint(ConfigHost, 8010)

\* C2 as stated: with a timeout T > 0 of the caller and no probe up, start
\* fails with the start-timeout error after T/500 failed probes.
C2_TimeoutAfterExactQuotient ==
    \A p \in Procs :
        (StartTimedOut(p) /\ Numeric(inv[p].opts)) =>
            inv[p].fails * TIMEOUT_POLL_INCREMENT = inv[p].opts.timeout.val

\* C2 as amended: with a timeout T > 0 of the caller and no probe up, start
\* fails with the start-timeout error after the least number n of failed
\* probes with n * 500 >= T (T/500 rounded up), with one poll interval
\* between two probes; while fewer probes have failed it keeps polling, it
\* never resolves without a probe that was up, and after the error it polls
\* no more.
C2_TimeoutAfterBudget ==
    \A p \in Procs :
        (inv[p].op = "start" /\ Numeric(inv[p].opts)) =>
            LET T == inv[p].opts.timeout.val
                n == inv[p].fails
            IN  /\ InWaitForStart(p) =>
                    /\ n * TIMEOUT_POLL_INCREMENT < T
                    /\ inv[p].waitErr = "none"
                    /\ inv[p].delays = IF inv[p].pc = "ws_sleep" THEN n - 1 ELSE n
                /\ StartTimedOut(p) =>
                    /\ n * TIMEOUT_POLL_INCREMENT >= T
                    /\ (n - 1) * TIMEOUT_POLL_INCREMENT < T
                    /\ inv[p].delays = n - 1
                    /\ inv[p].upTarget = NoEndpoint
                    /\ inv[p].result = StartTimeoutError
                /\ (inv[p].pc = "done" /\ inv[p].upTarget = NoEndpoint
                        /\ inv[p].childPid # NoPid) => StartTimedOut(p)
                /\ StartResolved(p) => inv[p].upTarget # NoEndpoint

\* start with timeout 750 timed out after its second failed probe
C2_Witness ==
    \E p \in Procs :
        /\ StartTimedOut(p)
        /\ inv[p].opts.timeout = Num(750)
        /\ inv[p].fails = 2 /\ inv[p].delays = 1

\* C3: without a timeout option the poll budget of waitForStart and
\* waitForStop comes from the configured default timeout, so the wait of
\* start and of stop ends after no more failed probes than that timeout
\* allows (ConfigTimeout/500 rounded up).
C3_DefaultTimeoutBoundsPoll ==
    \A p \in Procs :
        (inv[p].op \in {"start", "stop"} /\ inv[p].opts.timeout = Undefined) =>
            (inv[p].fails - 1) * TIMEOUT_POLL_INCREMENT < ConfigTimeout

\* C4: stop first completes the DELETE request, enters waitForStop only after
\* the request succeeded, and ends with kill: kill runs after a wait that
\* resolved, after a wait that timed out and after a failed request, never
\* before the request has completed, and stop never ends without it.
C4_StopOrder ==
    \A p \in Procs :
        inv[p].op = "stop" =>
            /\ inv[p].pc \in {"stop_delete", "wstop_probe", "wstop_sleep",
                              "kill", "kill_clear", "done"}
            /\ inv[p].pc = "stop_delete" => inv[p].delDone = "none" /\ ~inv[p].waited
            /\ inv[p].pc \in {"wstop_probe", "wstop_sleep"} =>
                   inv[p].delDone = "ok" /\ inv[p].waitErr = "none"
            /\ inv[p].waited => inv[p].delDone = "ok"
            /\ inv[p].pc \in {"kill", "kill_clear", "done"} =>
                   /\ inv[p].delDone # "none"
                   /\ inv[p].delDone = "ok" => inv[p].waited
            /\ (inv[p].pidRead # NoPid \/ inv[p].sigErr \/ inv[p].killed) =>
                   inv[p].pc \in {"kill_clear", "done"}
            /\ inv[p].killed <=> inv[p].pc = "done"
            /\ inv[p].pc = "done" => status = NoRecord

\* stop ended after its wait had timed out, with a signal delivered
C4_Witness ==
    \E p \in Procs :
        /\ StopDone(p)
        /\ inv[p].waitErr = StopTimeoutError
        /\ inv[p].killed /\ inv[p].sigTo # NoPid

\* C5: once stop, invoked on a running server, has resolved, the Status
\* Record no longer exists and a status call made right then returns STOPPED.
C5_StopThenStatusStopped ==
    \A p \in Procs :
        (StopDone(p) /\ inv[p].running) =>
            /\ status = NoRecord
            /\ StatusState(inv[p].opts, status) = "STOPPED"

\* C6: kill reads the persisted pid, sends one signal to that pid, without
\* an HTTP request or a wait, and then clears the Status Record; the record
\* is absent after kill both when the signal was delivered and when
\* process.kill threw, and kill resolves without error in both cases.
C6_KillSignalsThenClears ==
    \A p \in Procs :
        /\ inv[p].op = "kill" =>
            /\ inv[p].delDone = "none" /\ ~inv[p].waited
            /\ inv[p].fails = 0 /\ inv[p].delays = 0
            /\ inv[p].pc \in {"kill", "kill_clear", "done"}
        /\ (inv[p].op \in {"kill", "stop"} /\ inv[p].pc \in {"kill_clear", "done"}) =>
            /\ inv[p].pidRead = inv[p].rec0.pid
            /\ inv[p].sigErr => inv[p].sigTo = NoPid
            /\ ~inv[p].sigErr => inv[p].sigTo = inv[p].pidRead /\ inv[p].pidRead # NoPid
        /\ (inv[p].op \in {"kill", "stop"} /\ inv[p].pc = "kill_clear") =>
            status = inv[p].rec0
        /\ (inv[p].op \in {"kill", "stop"} /\ inv[p].pc = "done") =>
            /\ inv[p].killed
            /\ status = NoRecord
            /\ inv[p].result = "ok"

\* kill found the pid of a process that was gone, and cleared the record
C6_Witness ==
    \E p \in Procs :
        /\ KillDone(p)
        /\ inv[p].sigErr /\ inv[p].rec0.pid # NoPid
        /\ status = NoRecord

\* what one more kill would do to the Status Record, and the pid it would signal
KillAgainRecord == AfterSignal(status, ~KillDelivers(status.pid))
KillAgainSignal == IF KillDelivers(status.pid) THEN status.pid ELSE NoPid

\* C7: kill called when no Status Record exists raises no error, signals no
\* process and leaves the record absent; and a kill after a kill changes
\* nothing: it would leave the record as the first one left it and signal
\* no process.
C7_KillIdempotent ==
    \A p \in Procs :
        /\ (inv[p].op = "kill" /\ inv[p].rec0 = NoRecord) =>
            /\ status = NoRecord
            /\ inv[p].sigTo = NoPid
            /\ inv[p].pc = "done" => inv[p].result = "ok" /\ inv[p].killed
            /\ inv[p].pc \in {"kill_clear", "done"} => inv[p].sigErr
        /\ KillDone(p) =>
            /\ inv[p].result = "ok"
            /\ KillAgainRecord = status
            /\ KillAgainSignal = NoPid

\* kill ended, called when there was no Status Record
C7_Witness ==
    \E p \in Procs :
        KillDone(p) /\ inv[p].rec0 = NoRecord /\ inv[p].sigErr

\* the spawn of this start failed
SpawnFailed(p) ==
    inv[p].op = "start" /\ (inv[p].spawnErr \/ inv[p].result = "SpawnError")

\* C8: if the spawn fails, start fails with an error delivered to its caller
\* and the Status Record is the same after start as before it.
C8_SpawnFailureWritesNothing ==
    \A p \in Procs :
        SpawnFailed(p) =>
            /\ status = inv[p].rec0
            /\ inv[p].pc = "done" => inv[p].result = "SpawnError"

\* C9 as stated: when the budget of a wait is exhausted the caller of start
\* gets the start-timeout error and the caller of stop the stop-timeout error.
C9_TimeoutErrorReachesCaller ==
    \A p \in Procs :
        (inv[p].pc = "done" /\ inv[p].waitErr # "none") =>
            inv[p].result = inv[p].waitErr

\* C9 as amended: a wait throws its timeout error exactly when its budget is
\* exhausted, waitForStart the start-timeout error and waitForStop the
\* stop-timeout error, which differ; the caller of start gets the
\* start-timeout error, while stop keeps the stop-timeout error to itself,
\* goes on to kill and resolves without error.
C9_TimeoutErrors ==
    \A p \in Procs :
        /\ inv[p].op \in {"start", "stop"} =>
               (inv[p].waitErr # "none" <=> LeqZero(inv[p].i))
        /\ inv[p].waitErr = StartTimeoutError => inv[p].op = "start"
        /\ inv[p].waitErr = StopTimeoutError => inv[p].op = "stop"
        /\ (inv[p].op = "start" /\ inv[p].waitErr # "none") =>
               /\ inv[p].waitErr = StartTimeoutError
               /\ inv[p].pc = "done"
               /\ inv[p].result = StartTimeoutError
        /\ (inv[p].op = "stop" /\ inv[p].waitErr # "none") =>
               /\ inv[p].waitErr = StopTimeoutError
               /\ inv[p].pc \in {"kill", "kill_clear", "done"}
               /\ inv[p].pc = "done" => inv[p].result = "ok" /\ inv[p].killed

\* stop resolved although its wait had thrown the stop-timeout error
C9_Witness ==
    \E p \in Procs :
        StopDone(p) /\ inv[p].waitErr = StopTimeoutError /\ inv[p].result = "ok"

\* C10: waitForStart resolves at the first probe that is up and probes no
\* more; its countdown is set once, to timeout/500, loses exactly one per
\* failed probe and is never set again during the wait; a retry follows its
\* failed probe by one poll interval.
C10_CountdownOfWaitForStart ==
    \A p \in Procs :
        (inv[p].op = "start" /\ inv[p].inits > 0) =>
            /\ inv[p].inits = 1
            /\ inv[p].fails = 0 => inv[p].i = InitialAttempts(inv[p].opts)
            /\ inv[p].fails > 0 =>
                   /\ inv[p].i.kind = "number"
                   /\ inv[p].i.val = InitialAttempts(inv[p].opts).val
                                        - inv[p].fails * TIMEOUT_POLL_INCREMENT
            /\ inv[p].delays = IF inv[p].pc = "ws_probe" THEN inv[p].fails
                               ELSE inv[p].fails - (IF inv[p].upTarget = NoEndpoint THEN 1 ELSE 0)
            /\ inv[p].upTarget # NoEndpoint => inv[p].pc = "done"

InWaitForStop(p) == inv[p].op = "stop" /\ inv[p].pc \in {"wstop_probe", "wstop_sleep"}

\* C11: waitForStop resolves at the first probe that is down and probes no
\* more; while the probes are up its countdown, set to timeout/500, loses
\* exactly one per probe and a retry follows its probe by one poll interval;
\* when the countdown reaches zero it throws the stop-timeout error and does
\* not resolve.
C11_CountdownOfWaitForStop ==
    \A p \in Procs :
        (inv[p].op = "stop" /\ inv[p].waited) =>
            /\ inv[p].fails = 0 => inv[p].i = InitialAttempts(inv[p].opts)
            /\ inv[p].fails > 0 =>
                   /\ inv[p].i.kind = "number"
                   /\ inv[p].i.val = InitialAttempts(inv[p].opts).val
                                        - inv[p].fails * TIMEOUT_POLL_INCREMENT
            /\ InWaitForStop(p) =>
                   /\ inv[p].waitErr = "none"
                   /\ ~LeqZero(inv[p].i)
                   /\ inv[p].delays = IF inv[p].pc = "wstop_sleep" THEN inv[p].fails - 1
                                      ELSE inv[p].fails
            /\ ~InWaitForStop(p) =>
                   /\ inv[p].waitErr = StopTimeoutError <=> LeqZero(inv[p].i)
                   /\ inv[p].waitErr = "none" => inv[p].delays = inv[p].fails
                   /\ inv[p].waitErr # "none" => inv[p].delays = inv[p].fails - 1

\* the child this start spawned is listening
OwnChildListening(p) ==
    inv[p].childPid # NoPid /\ child[inv[p].childPid].st = "listening"

\* C12: a probe of waitForStart made while the child of this start listens
\* on its port makes start resolve, without the start-timeout error, and a
\* status call made right then, with the options of start or with none,
\* returns RUNNING; whatever host, port and timeout start was given.
C12_BoundChildLetsStartResolve ==
    [][\A p \in Procs :
         (inv[p].op = "start" /\ inv[p].pc = "ws_probe" /\ inv'[p].pc # "ws_probe"
              /\ OwnChildListening(p)) =>
             /\ inv'[p].pc = "done"
             /\ inv'[p].result = "ok"
             /\ inv'[p].waitErr = "none"
             /\ StatusState(inv'[p].opts, status') = "RUNNING"
             /\ StatusState(NoOpts, status') = "RUNNING"]_vars

\* start resolved on another host and port than the configured ones, at its
\* second probe, its child having bound the port during the poll interval
C12_Witness ==
    \E p \in Procs :
        /\ StartResolved(p) /\ OwnChildListening(p)
        /\ inv[p].fails = 1 /\ inv[p].delays = 1
        /\ inv[p].opts.host = "otherhost" /\ inv[p].opts.port = 8010
        /\ inv[p].opts.timeout = Num(1000)

StatusDone(p) == inv[p].op = "status" /\ inv[p].pc = "done"

\* C13 as stated: status that found the probe up has issued GET ?env=true
\* to the server and returns RUNNING with the metadata of that response;
\* status that found the probe down has issued no HTTP request and returns
\* STOPPED with the probe error.
C13_StatusQueriesEnvironment ==
    \A p \in Procs :
        StatusDone(p) =>
            /\ inv[p].result = "RUNNING" =>
                   /\ inv[p].sent = 1
                   /\ inv[p].req.method = "GET" /\ inv[p].req.path = "/?env=true"
            /\ inv[p].result = "STOPPED" =>
                   inv[p].sent = 0 /\ inv[p].error = ProbeError

\* C13 as amended: status makes the TCP probe and no HTTP request; if the
\* probe is up it returns RUNNING with the persisted Status Record as
\* metadata, if the probe is down it returns STOPPED with the probe error.
C13_StatusReportsRecord ==
    [][\A p \in Procs :
         (inv[p].pc = "idle" /\ inv'[p].op = "status") =>
             LET t == Target(inv'[p].opts, status)
             IN  /\ inv'[p].pc = "done"
                 /\ inv'[p].sent = 0 /\ inv'[p].req = NoRequest
                 /\ inv'[p].url = t
                 /\ ListeningAt(t.host, t.port) =>
                        /\ inv'[p].result = "RUNNING"
                        /\ inv'[p].meta = status /\ status' = status
                        /\ inv'[p].error = "none"
                 /\ ~ListeningAt(t.host, t.port) =>
                        /\ inv'[p].result = "STOPPED"
                        /\ inv'[p].error = ProbeError
                        /\ inv'[p].meta = NoRecord]_vars

\* status found a server at a port of the caller and returned the record of
\* a launch on another port as its metadata
C13_Witness ==
    \E p \in Procs :
        /\ StatusDone(p) /\ inv[p].result = "RUNNING"
        /\ inv[p].opts.port = 8010 /\ inv[p].meta.port = 8008 /\ inv[p].meta.pid # NoPid

\* C14: status ends with one of two results and never with an error of its
\* own: RUNNING with metadata and no error exactly when the probe connected,
\* STOPPED with the error of the probe and no metadata exactly when it did
\* not.
C14_StatusNeverFails ==
    [][\A p \in Procs :
         (inv[p].pc = "idle" /\ inv'[p].op = "status") =>
             LET up == ListeningAt(TargetHost(inv'[p].opts, status),
                                   TargetPort(inv'[p].opts, status))
                 r == inv'[p]
             IN  /\ r.pc = "done"
                 /\ r.result \in {"RUNNING", "STOPPED"}
                 /\ r.result = "RUNNING" <=> up
                 /\ r.result = "STOPPED" <=> ~up
                 /\ r.result = "RUNNING" <=> r.error = "none"
                 /\ r.result = "STOPPED" <=> r.error = ProbeError
                 /\ r.result = "STOPPED" => r.meta = NoRecord]_vars

\* status returned STOPPED with the probe error while a Status Record existed
C14_Witness ==
    \E p \in Procs :
        /\ StatusDone(p) /\ inv[p].result = "STOPPED" /\ inv[p].error = ProbeError
        /\ status.pid # NoPid

\* the operations that locate the server
TargetingOps ==
    {"stop", "status", "clear", "prune", "deploy", "undeploy", "list", "describe", "call",
     "getCurrentEnvironment"}

\* C15: once start has spawned a child and written the Status Record, the
\* record holds the pid of that child with the host and port start resolved
\* from its options over the configuration; the record names the host:port
\* its live child was launched with; every other operation targets, for host
\* and for port, the option of its caller if there is one, else the value of
\* the Status Record as long as kill or stop has not cleared it, else the
\* configured default, and it sends its HTTP request there.
C15_OperationsTargetTheRecord ==
    \A p \in Procs :
        /\ (inv[p].op = "start" /\ inv[p].childPid # NoPid
                /\ inv[p].pc \in {"ws_probe", "ws_sleep", "done"}) =>
            status = [pid |-> inv[p].childPid,
                      host |-> IF inv[p].opts.host # NoHost THEN inv[p].opts.host
                               ELSE ConfigHost,
                      port |-> IF inv[p].opts.port # NoPort THEN inv[p].opts.port
                               ELSE ConfigPort,
                      inspect |-> inv[p].inspect, debug |-> inv[p].debug]
        /\ ((\A q \in Procs : inv[q].pc \in {"idle", "done"})
                /\ status.pid # NoPid /\ Alive(status.pid)) =>
            /\ child[status.pid].host = status.host
            /\ child[status.pid].port = status.port
        /\ (inv[p].pc = "done" /\ inv[p].op \in {"stop", "kill"}) => status = NoRecord
        /\ inv[p].op \in TargetingOps =>
            /\ inv[p].url.host =
                   IF inv[p].opts.host # NoHost THEN inv[p].opts.host
                   ELSE IF inv[p].rec0 # NoRecord THEN inv[p].rec0.host
                   ELSE ConfigHost
            /\ inv[p].url.port =
                   IF inv[p].opts.port # NoPort THEN inv[p].opts.port
                   ELSE IF inv[p].rec0 # NoRecord THEN inv[p].rec0.port
                   ELSE ConfigPort
            /\ inv[p].sent > 0 =>
                   inv[p].req.host = inv[p].url.host /\ inv[p].req.port = inv[p].url.port

\* call without options was answered by the server that start had launched
\* on another host and port than the configured ones
C15_Witness ==
    \E p \in Procs :
        /\ inv[p].op = "call" /\ inv[p].pc = "done" /\ inv[p].result = "ok"
        /\ inv[p].opts = NoOpts
        /\ inv[p].rec0.pid # NoPid
        /\ inv[p].req.host = "otherhost" /\ inv[p].req.port = 8010

\* the record start of invocation p writes, in its two writes
RecordOf(p) == [pid |-> inv[p].childPid, host |-> inv[p].host, port |-> inv[p].port,
         inspect |-> inv[p].inspect, debug |-> inv[p].debug]

\* both invocations have spawned a child and made both their writes
BothWritten ==
    \A p \in Procs :
        /\ inv[p].op = "start" /\ inv[p].childPid # NoPid
        /\ inv[p].pc \in {"ws_probe", "ws_sleep", "done"}

\* C16 as stated: after two concurrent starts have both finished writing,
\* the Status Record is the complete record, pid and settings, written by one
\* of them, never a mixture of the two.
C16_RecordOfOneInvocation ==
    BothWritten => \E p \in Procs : status = RecordOf(p)

\* C16 as amended: each write of start wins over what was written before it,
\* for the fields it writes and no others: the first write replaces the
\* settings and leaves the pid, the second replaces the pid and leaves the
\* settings; after two concurrent starts have both finished writing, the pid
\* of the record is the pid of one of the two children and its settings are
\* the settings of one of the two invocations, not always the same one.
C16_LastWriterWinsPerWrite ==
    [][/\ \A p \in Procs :
            /\ (inv[p].pc = "idle" /\ inv'[p].pc = "start_pid") =>
                   /\ status'.host = inv'[p].host /\ status'.port = inv'[p].port
                   /\ status'.pid = status.pid
            /\ (inv[p].pc = "start_pid" /\ inv'[p].pc # "start_pid") =>
                   /\ status'.pid = inv[p].childPid
                   /\ status'.host = status.host /\ status'.port = status.port
       /\ BothWritten' =>
            /\ \E p \in Procs : status'.pid = inv'[p].childPid
            /\ \E p \in Procs : status'.host = inv'[p].host /\ status'.port = inv'[p].port]_vars

\* both starts have finished writing and the record has the pid of the child
\* of one with the port of the other
C16_Witness ==
    /\ BothWritten
    /\ inv[1].port # inv[2].port
    /\ status.pid = inv[1].childPid
    /\ status.port = inv[2].port

\* the start of p has passed the making of its arguments
Launching(p) == inv[p].op = "start" /\ inv[p].pc # "idle"

HasFlag(p, flag) == \E k \in 1..Len(inv[p].args) : inv[p].args[k] = flag

DispatcherOps ==
    {"clear", "prune", "deploy", "undeploy", "list", "describe", "call",
     "getCurrentEnvironment"}

InCall(p) == inv[p].op = "call" /\ inv[p].pc # "idle"

\* the json option call(name, d) hands to got
CallJson(d) ==
    ActionJson(ActionArg("POST", NoEndpoint, "/" \o FunctionName, d, 0, TRUE))

C20_RawResponseUndecoded ==
    \A p \in Procs :
        (inv[p].op \in DispatcherOps /\ inv[p].pc = "done" /\ inv[p].delDone = "ok") =>
            /\ inv[p].raw <=> inv[p].op = "call"
            /\ inv[p].raw =>
                   /\ inv[p].result = "ok"
                   /\ inv[p].ret.kind = "response"
                   /\ inv[p].ret.body.t = "string"
                   /\ inv[p].ret.body.x \in ResponseBodies
            /\ (~inv[p].raw /\ inv[p].result = "ok") =>
                   /\ inv[p].ret.kind = "body"
                   /\ inv[p].ret.body \in JsonValues

\* the verb and the path of the request of an operation
VerbAndPath(p) == <<inv[p].req.method, RequestPath(inv[p].req.path)>>

\* C21: the one request of an operation has a fixed verb and path: clear
\* DELETE /function/, prune PATCH /function/, deploy POST
\* /function/{entryPoint}?path={absolute module path}&type={H|B}, undeploy
\* DELETE /function/{name}, list GET /function/, describe GET
\* /function/{name}, call POST /{name}, getCurrentEnvironment GET /?env=true,
\* stop DELETE /; list and describe, which give a bare URL, use GET; and the
\* request goes to the host:port the operation resolved.
C21_VerbAndPathOfOperation ==
    \A p \in Procs :
        inv[p].sent = 1 =>
            /\ inv[p].req.host = inv[p].url.host /\ inv[p].req.port = inv[p].url.port
            /\ CASE inv[p].op = "clear" -> VerbAndPath(p) = <<"DELETE", "/function/">>
                 [] inv[p].op = "prune" -> VerbAndPath(p) = <<"PATCH", "/function/">>
                 [] inv[p].op = "deploy" ->
                        VerbAndPath(p) \in
                            {<<"POST", "/function/hello?path=" \o abs \o "&type=" \o t>> :
                                abs \in {"/cwd/mod", "/abs/mod"}, t \in {"H", "B"}}
                 [] inv[p].op = "undeploy" -> VerbAndPath(p) = <<"DELETE", "/function/hello">>
                 [] inv[p].op = "list" -> VerbAndPath(p) = <<"GET", "/function/">>
                 [] inv[p].op = "describe" -> VerbAndPath(p) = <<"GET", "/function/hello">>
                 [] inv[p].op = "call" -> VerbAndPath(p) = <<"POST", "/hello">>
                 [] inv[p].op = "getCurrentEnvironment" ->
                        VerbAndPath(p) = <<"GET", "/?env=true">>
                 [] inv[p].op = "stop" -> VerbAndPath(p) = <<"DELETE", "/">>
                 [] OTHER -> FALSE

\* deploy of a module given by a relative path sent its POST with the
\* absolute path
C21_Witness ==
    \E p \in Procs :
        /\ inv[p].op = "deploy" /\ inv[p].sent = 1
        /\ VerbAndPath(p) = <<"POST", "/function/hello?path=/cwd/mod&type=H">>

\* an HTTP operation gets its answer and resolves
Answered(p, op) ==
    /\ inv[p].pc = "http_wait" /\ inv[p].op = op
    /\ inv'[p].pc = "done" /\ inv'[p].result = "ok"
\* the server the request of p goes to
Holder(p) == ServerAt(inv[p].req.host, inv[p].req.port)
AbsolutePath(mp) == IF mp = "./mod" THEN "/cwd/mod" ELSE "/abs/mod"

\* C22: when deploy(path, name, 'B') succeeds, the server that answered
\* holds name with type BACKGROUND and the resolved absolute path of the
\* module; a list that succeeds returns what the server holds, type and path
\* of every function, and a describe(name) that succeeds returns the name and
\* the type and path the server holds for it.
C22_DeployedIsListedAndDescribed ==
    [][\A p \in Procs :
        /\ Answered(p, "deploy") /\ inv[p].fn.type = "B" =>
              child'[Holder(p)].funcs[inv[p].fn.name] =
                  [type |-> "BACKGROUND", path |-> AbsolutePath(inv[p].fn.path)]
        /\ Answered(p, "list") =>
              DecodeFunctions(inv'[p].ret.body) = child[Holder(p)].funcs
        /\ Answered(p, "describe") =>
              DecodeFunction(inv'[p].ret.body) =
                  <<inv[p].fn.name, child[Holder(p)].funcs[inv[p].fn.name]>>
    ]_vars

\* a list was answered by a server that holds hello as a BACKGROUND function
\* deployed from a relative path
C22_Witness ==
    \E p \in Procs :
        /\ inv[p].op = "list" /\ inv[p].pc = "done" /\ inv[p].result = "ok"
        /\ DecodeFunctions(inv[p].ret.body)["hello"] =
               [type |-> "BACKGROUND", path |-> "/cwd/mod"]

\* C23: when undeploy(name) succeeds, the server that answered no longer
\* holds name and holds every other function as before, so that undeploying
\* the only function it holds leaves it with none, and a list then returns
\* the empty collection.
C23_UndeployRemovesOnlyTheName ==
    [][\A p \in Procs :
        Answered(p, "undeploy") =>
            LET before == child[Holder(p)].funcs
                after == child'[Holder(p)].funcs
                name == inv[p].fn.name
            IN  /\ after[name] = NoFunction
                /\ \A n \in FunctionNames \ {name} : after[n] = before[n]
                /\ (\A n \in FunctionNames \ {name} : before[n] = NoFunction) =>
                      EncodeFunctions(after) = "{}"
    ]_vars

\* helloData was undeployed from a server that still holds hello
C23_Witness ==
    \E p \in Procs :
        /\ inv[p].op = "undeploy" /\ inv[p].pc = "done" /\ inv[p].result = "ok"
        /\ inv[p].fn.name = "helloData"
        /\ ListeningAt(inv[p].req.host, inv[p].req.port)
        /\ child[Holder(p)].funcs["hello"] # NoFunction
        /\ child[Holder(p)].funcs["helloData"] = NoFunction

\* a step of the operation op of p
StepOf(p, op) == inv'[p] # inv[p] /\ (inv[p].op = op \/ inv'[p].op = op)

\* C24: when clear succeeds, the server that answered holds no function,
\* whatever it held before, so that a list returns the empty collection; and
\* no step of clear stops a server, changes the Status Record or sends a
\* signal.
C24_ClearEmptiesAndLeavesServer ==
    [][\A p \in Procs :
        /\ Answered(p, "clear") =>
              /\ child'[Holder(p)].funcs = NoFunctions
              /\ EncodeFunctions(child'[Holder(p)].funcs) = "{}"
              /\ child'[Holder(p)].st = "listening"
        /\ StepOf(p, "clear") =>
              /\ status' = status
              /\ \A c \in Pids : child'[c].st = child[c].st
              /\ inv'[p].sigTo = NoPid
    ]_vars

\* clear succeeded on the server of the Status Record, which is still
\* listening and holds nothing
C24_Witness ==
    \E p \in Procs :
        /\ inv[p].op = "clear" /\ inv[p].pc = "done" /\ inv[p].result = "ok"
        /\ status.pid # NoPid /\ child[status.pid].st = "listening"
        /\ Holder(p) = status.pid
        /\ child[status.pid].funcs = NoFunctions

\* start resolves in this step
StartResolves(p) ==
    /\ inv[p].op = "start" /\ inv[p].pc # "done"
    /\ inv'[p].pc = "done" /\ inv'[p].result = "ok"

\* C25: whenever start resolves, the process accepting connections at the
\* host:port it resolved is the child that call spawned, and the pid in the
\* Status Record is the pid of that listening process, also when a server
\* was already listening on that host:port when start was called.
C25_ResolvedStartOwnsTheListener ==
    [][\A p \in Procs :
        StartResolves(p) =>
            /\ ListeningAt(inv[p].host, inv[p].port)
            /\ ServerAt(inv[p].host, inv[p].port) = inv[p].childPid
            /\ status'.pid = ServerAt(inv[p].host, inv[p].port)
    ]_vars

\* C26: when a start, stop or kill of a single caller has ended, no spawn
\* having failed in it, every child still alive, the one that command has
\* just signalled aside, is the child whose pid is in the Status Record, so
\* that at most one spawned child is alive and kill can terminate it.
C26_NoOrphanedChildren ==
    \A p \in SeqProcs :
        /\ inv[p].pc = "done" /\ inv[p].op \in {"start", "stop", "kill"}
        /\ ~inv[p].spawnErr /\ inv[p].result # "SpawnError"
        => \A c \in Pids : Alive(c) /\ c # inv[p].sigTo => status.pid = c

StopSignals(p) == inv[p].op = "stop" /\ inv[p].pc = "kill" /\ inv'[p].pc = "kill_clear"
StopClears(p) == inv[p].op = "stop" /\ inv[p].pc = "kill_clear" /\ inv'[p].pc = "done"

\* C27 as stated: the kill step of a stop that runs beside a start of
\* another invocation signals only the pid recorded when stop began, and
\* leaves a Status Record alone that was written since stop began.
C27_StopKillsOnlyWhatItFound ==
    [][\A p \in Procs :
        /\ StopSignals(p) => inv'[p].sigTo \in {NoPid, inv[p].rec0.pid}
        /\ StopClears(p) /\ status # inv[p].rec0 => status' = status
    ]_vars

\* C27: the kill step of stop signals the pid that is in the Status Record
\* when the signal is sent, whichever invocation wrote it, and clears the
\* Status Record whatever it holds by then.
C27_StopKillsWhatIsRecorded ==
    [][\A p \in Procs :
        /\ StopSignals(p) =>
              /\ inv'[p].pidRead = status.pid
              /\ inv'[p].sigTo \in {NoPid, status.pid}
        /\ StopClears(p) => status' = NoRecord
    ]_vars

\* a stop that found the record of one server has signalled the child of a
\* start that began beside it, and that start resolved with no Status Record
\* left
C27_Witness ==
    \E p, q \in Procs :
        /\ p # q
        /\ inv[p].op = "stop" /\ inv[p].pc = "done" /\ inv[p].killed
        /\ inv[p].rec0.pid # NoPid
        /\ inv[p].sigTo = inv[q].childPid /\ inv[p].sigTo # inv[p].rec0.pid
        /\ StartResolved(q)
        /\ status = NoRecord

\* C28: when start fails with the start-timeout error, the Status Record
\* written for that launch, the pid of the child and the host and port it was
\* launched with, is still there, and start has sent no signal: the child it
\* spawned is alive unless it has exited by itself.
C28_StartTimeoutLeavesRecord ==
    \A p \in SeqProcs :
        StartTimedOut(p) =>
            /\ status = [pid |-> inv[p].childPid, host |-> inv[p].host,
                         port |-> inv[p].port, inspect |-> inv[p].inspect,
                         debug |-> inv[p].debug]
            /\ inv[p].sigTo = NoPid /\ inv[p].pidRead = NoPid /\ ~inv[p].killed

\* start timed out on a child that is still alive, not listening, and
\* recorded
C28_Witness ==
    \E p \in SeqProcs :
        /\ StartTimedOut(p)
        /\ inv[p].childPid # NoPid /\ child[inv[p].childPid].st = "spawned"
        /\ status.pid = inv[p].childPid

\* C29: a stop whose DELETE request failed makes no readiness probe at all,
\* starts no countdown and no poll delay, and is at kill right after the
\* failure; a stop that has probed is one whose DELETE request succeeded.
C29_FailedDeleteSkipsTheWait ==
    \A p \in Procs :
        inv[p].op = "stop" =>
            /\ inv[p].delDone = "fail" =>
                  /\ ~inv[p].waited /\ inv[p].waitErr = "none"
                  /\ inv[p].fails = 0 /\ inv[p].inits = 0 /\ inv[p].delays = 0
                  /\ inv[p].i = Undefined
                  /\ inv[p].pc \in {"kill", "kill_clear", "done"}
            /\ (inv[p].waited \/ inv[p].fails > 0 \/ inv[p].inits > 0) =>
                  inv[p].delDone = "ok"

\* stop ended on a server that was running when it was called: the DELETE
\* request failed, no probe was made, and the signal was delivered
C29_Witness ==
    \E p \in Procs :
        /\ StopDone(p) /\ inv[p].delDone = "fail" /\ inv[p].running
        /\ ~inv[p].waited /\ inv[p].killed /\ inv[p].sigTo # NoPid

\* C30: a stop called when there is no Status Record ends without error,
\* signals no process and leaves the record absent, also when no server
\* answers its DELETE request; and since every stop ends with the record
\* absent, a stop after a stop is such a call: one more kill step would signal
\* nothing and leave the record as it is.
C30_StopWithNothingToStop ==
    \A p \in Procs :
        inv[p].op = "stop" =>
            /\ inv[p].rec0 = NoRecord =>
                  /\ status = NoRecord
                  /\ inv[p].sigTo = NoPid
                  /\ inv[p].pc = "done" =>
                        inv[p].result = "ok" /\ inv[p].killed /\ inv[p].sigErr
            /\ inv[p].pc = "done" =>
                  /\ inv[p].result = "ok"
                  /\ status = NoRecord
                  /\ KillAgainSignal = NoPid /\ KillAgainRecord = NoRecord

\* stop ended, called with no Status Record and no server at its URL: the
\* DELETE request failed and process.kill threw
C30_Witness ==
    \E p \in Procs :
        /\ StopDone(p) /\ inv[p].rec0 = NoRecord /\ ~inv[p].running
        /\ inv[p].delDone = "fail" /\ inv[p].sigErr /\ inv[p].result = "ok"
        /\ \A c \in Pids : ~Alive(c)

\* the record holds the settings of a launch whose arguments are args
RecordedLaunch(p) ==
    /\ inv[p].op = "start" /\ inv[p].pc \in {"start_pid", "ws_probe", "ws_sleep", "done"}
    /\ inv[p].result # "SpawnError"

\* C31: the inspect setting in the Status Record holds for true only if the
\* inspect flag was passed to the child of that launch, and the debug setting
\* only if the debug flag was passed: the record does not show inspect after
\* the flag was dropped on an old runtime, and does not show both.
C31_RecordedFlagsAreLaunchFlags ==
    \A p \in SeqProcs :
        RecordedLaunch(p) =>
            /\ IsTrue(status.inspect) => HasFlag(p, InspectFlag)
            /\ IsTrue(status.debug) => HasFlag(p, DebugFlag)
            /\ ~(IsTrue(status.inspect) /\ IsTrue(status.debug))

\* the operations that only ask or tell the server something
FrameOps ==
    {"status", "clear", "prune", "deploy", "undeploy", "list", "describe", "call",
     "getCurrentEnvironment"}

\* C32: no step of status (with its probe), clear, prune, deploy, undeploy,
\* list, describe, call or getCurrentEnvironment changes the Status Record,
\* sends a signal or ends a child, whether the operation succeeds or fails;
\* and a step that changes the Status Record is a step of a start, a stop or
\* a kill.
C32_OnlyLifecycleChangesRecord ==
    [][/\ \A p \in Procs :
            (\E op \in FrameOps : StepOf(p, op)) =>
                /\ status' = status
                /\ inv'[p].sigTo = NoPid /\ inv'[p].pidRead = NoPid
                /\ \A c \in Pids : child'[c].st = child[c].st
       /\ status' # status =>
            \E p \in Procs : inv'[p] # inv[p] /\ inv'[p].op \in {"start", "stop", "kill"}
    ]_vars

\* a deploy failed while there was a Status Record, which is as it was
C32_Witness ==
    \E p \in Procs :
        /\ inv[p].op = "deploy" /\ inv[p].pc = "done" /\ inv[p].result = "HTTPError"
        /\ status.pid # NoPid /\ status = inv[p].rec0

\* C33: when restart has ended, it has got the state from status; on RUNNING
\* it has run stop to its end and then a start with the settings of the
\* instance that was running, on STOPPED it has sent no stop request and run
\* a start with the caller's options; and no error of status, stop or start
\* has left the handler uncaught.
C33_RestartStopsThenStarts ==
    \A p \in SeqProcs :
        inv[p].op = "restart" /\ inv[p].pc = "done" =>
            /\ inv[p].thrown = "none"
            /\ inv[p].state \in {"RUNNING", "STOPPED"}
            /\ inv[p].state = "RUNNING" =>
                  /\ inv[p].killed
                  /\ inv[p].host = inv[p].meta.host /\ inv[p].port = inv[p].meta.port
            /\ inv[p].state = "STOPPED" =>
                  /\ inv[p].sent = 0 /\ ~inv[p].killed
                  /\ inv[p].host = GetSettingHost(inv[p].opts)
                  /\ inv[p].port = GetSettingPort(inv[p].opts)
            /\ inv[p].args # <<>>

====
